---- MODULE Spec2Model ----
(***************************************************************************)
(* Verification model of the 60-days-of-Go exercises.                      *)
(*                                                                         *)
(*  Part I   day02  FizzBuzz over two unbuffered channels (test + worker)  *)
(*  Part II  day13  cards CRUD service (handlers, route table)             *)
(*  Part III        Order / promo example (totals and discounts)           *)
(*  Part IV  day06  Pokedex program (fetch, decode, print)                 *)
(***************************************************************************)
EXTENDS Integers, Sequences, FiniteSets, TLC

VARIABLES
    \* ---- day02: the test goroutine
    table,      \* the table the test iterates over
    idx,        \* position of `for _, data := range table`
    tpc,        \* "go" | "send" | "recv" | "done"
    actual,     \* the last string read from message
    errors,     \* number of t.Errorf calls
    sent,       \* history: integers sent on count
    received,   \* history: strings received from message
    \* ---- day02: the worker goroutine
    wpc,        \* "none" | "recv" | "send"
    number,     \* the integer the worker read from count
    \* ---- day13: the cards service
    db,         \* the memory database: [cards, lastID]
    req,        \* the request being served, or NoRequest
    last,       \* what the handler of the request just served did, or NoResponse
    removed,    \* ids removed with 204 since the last create request
    kept,       \* ids that were present beside the id removed last
    \* ---- the Order / promo example
    order,      \* the order being printed: [ctm, cart, promo]
    opc,        \* "new" | "total" | "due" | "printed"
    ototal,     \* the value order.Total() returned
    odiscount,  \* the value of `discount` in order.Due()
    odue,       \* the value order.Due() returned
    \* ---- day06: the Pokedex program
    ppc,        \* position in main
    index,      \* the -index flag
    resp,       \* the response of http.Get: [err, body], body a JSON text kind
    bodyClosed, \* resp.Body.Close() has been called
    deferred,   \* the deferred calls of main, last registered last
    decodes,    \* number of Decode calls
    pk,         \* the decoded Pokemon: [abilities, moves] (their lengths)
    printed,    \* lines written to standard output
    exitCode    \* -1 while the process runs

fizzVars == <<table, idx, tpc, actual, errors, sent, received, wpc, number>>

cardsVars == <<db, req, last, removed, kept>>

orderVars == <<order, opc, ototal, odiscount, odue>>

pokeVars == <<ppc, index, resp, bodyClosed, deferred, decodes, pk, printed, exitCode>>

vars == <<fizzVars, cardsVars, orderVars, pokeVars>>

(***************************************************************************)
(* Part I - day02 FizzBuzz                                                 *)
(***************************************************************************)

\* Bounds of the generated tables.
MaxInput == 5
MaxTable == 3

\* The tables of TestFizz, TestBuzz and TestFizzBuzz.
TestFizzTable ==
    << [input |-> 3, Expected |-> "Fizz"],
       [input |-> 6, Expected |-> "Fizz"],
       [input |-> 9, Expected |-> "Fizz"] >>

TestBuzzTable ==
    << [input |-> 5,  Expected |-> "Buzz"],
       [input |-> 10, Expected |-> "Buzz"],
       [input |-> 20, Expected |-> "Buzz"] >>

TestFizzBuzzTable ==
    << [input |-> 15, Expected |-> "FizzBuzz"],
       [input |-> 30, Expected |-> "FizzBuzz"],
       [input |-> 60, Expected |-> "FizzBuzz"] >>

TestTables == {TestFizzTable, TestBuzzTable, TestFizzBuzzTable}

Answers == {"Fizz", "Buzz", "FizzBuzz"}

Inputs == 0..MaxInput

RECURSIVE SeqsUpTo(_, _)
SeqsUpTo(S, n) ==
    IF n = 0 THEN {<<>>}
    ELSE LET shorter == SeqsUpTo(S, n - 1)
         IN  shorter \cup {Append(s, x) : s \in {t \in shorter : Len(t) = n - 1}, x \in S}

\* A table in the style of the tests: one expected answer for all its rows.
TableOf(inputs, e) ==
    [k \in 1..Len(inputs) |-> [input |-> inputs[k], Expected |-> e]]

Tables ==
    TestTables \cup {TableOf(ins, e) : ins \in SeqsUpTo(Inputs, MaxTable), e \in Answers}

\* A worker that answers from the number it held before the receive.
StaleReceive(old, n) == old

\* The worker's `number := <-count`.
WorkerReceive(old, n) == n

\* A worker that reports every multiple of 3 as "Fizz".
FizzBuzzOfNo15(n) ==
    IF n % 3 = 0 THEN "Fizz"
    ELSE IF n % 5 = 0 THEN "Buzz"
    ELSE ToString(n)

\* The string the worker sends back for n.
FizzBuzzOf(n) ==
    IF n % 15 = 0 THEN "FizzBuzz"
    ELSE IF n % 3 = 0 THEN "Fizz"
    ELSE IF n % 5 = 0 THEN "Buzz"
    ELSE ToString(n)

\* A one-shot worker: it returns after its first reply.
WorkerOneShot == "none"

\* The worker's loop: after a reply it reads count again.
WorkerAfterReply == "recv"

FizzInit ==
    /\ table \in Tables
    /\ idx = 1
    /\ tpc = "go"
    /\ actual = ""
    /\ errors = 0
    /\ sent = <<>>
    /\ received = <<>>
    /\ wpc = "none"
    /\ number = 0

\* go FizzBuzz(count, message)
GoFizzBuzz ==
    /\ tpc = "go"
    /\ tpc' = "send"
    /\ wpc' = "recv"
    /\ UNCHANGED <<table, idx, actual, errors, sent, received, number>>
    /\ UNCHANGED <<cardsVars, orderVars, pokeVars>>

\* count <- data.input, meeting the worker's <-count (count is unbuffered).
SendCount ==
    /\ tpc = "send"
    /\ idx <= Len(table)
    /\ wpc = "recv"
    /\ number' = WorkerReceive(number, table[idx].input)
    /\ sent' = Append(sent, table[idx].input)
    /\ tpc' = "recv"
    /\ wpc' = "send"
    /\ UNCHANGED <<table, idx, actual, errors, received>>
    /\ UNCHANGED <<cardsVars, orderVars, pokeVars>>

\* actual := <-message, meeting the worker's message <- ..., then the
\* comparison with data.Expected and the next iteration.
ReceiveMessage ==
    /\ tpc = "recv"
    /\ wpc = "send"
    /\ LET reply == FizzBuzzOf(number)
       IN  /\ actual' = reply
           /\ received' = Append(received, reply)
           /\ errors' = IF reply # table[idx].Expected THEN errors + 1 ELSE errors
    /\ idx' = idx + 1
    /\ tpc' = "send"
    /\ wpc' = WorkerAfterReply
    /\ UNCHANGED <<table, sent, number>>
    /\ UNCHANGED <<cardsVars, orderVars, pokeVars>>

\* The range loop is exhausted and the test function returns.
TestReturn ==
    /\ tpc = "send"
    /\ idx > Len(table)
    /\ tpc' = "done"
    /\ UNCHANGED <<table, idx, actual, errors, sent, received, wpc, number>>
    /\ UNCHANGED <<cardsVars, orderVars, pokeVars>>

FizzNext ==
    \/ GoFizzBuzz
    \/ SendCount
    \/ ReceiveMessage
    \/ TestReturn

(***************************************************************************)
(* Part II - day13 cards service                                           *)
(*                                                                         *)
(* Strings that the code inspects character by character (request paths,  *)
(* the {id} path variable) are tuples of one-character strings.  An int64  *)
(* is held as its canonical decimal numeral (what strconv.FormatInt        *)
(* prints), so that the 64-bit range is kept exactly.                      *)
(***************************************************************************)

\* Bound on the number of cards ever created.
MaxCards == 2

DigitChar == <<"0", "1", "2", "3", "4", "5", "6", "7", "8", "9">>

Digits == {DigitChar[i] : i \in 1..10}

DigitVal(c) == CHOOSE v \in 0..9 : DigitChar[v + 1] = c

RECURSIVE Itoa(_)
Itoa(n) ==
    IF n < 10 THEN <<DigitChar[n + 1]>>
    ELSE Itoa(n \div 10) \o <<DigitChar[(n % 10) + 1]>>

RECURSIVE StripZeros(_)
StripZeros(s) ==
    IF Len(s) > 1 /\ Head(s) = "0" THEN StripZeros(Tail(s)) ELSE s

RECURSIVE LexLess(_, _)
LexLess(a, b) ==
    IF a = <<>> THEN FALSE
    ELSE IF DigitVal(Head(a)) # DigitVal(Head(b))
         THEN DigitVal(Head(a)) < DigitVal(Head(b))
         ELSE LexLess(Tail(a), Tail(b))

\* a < b for two numerals without leading zeros.
NumLess(a, b) ==
    \/ Len(a) < Len(b)
    \/ Len(a) = Len(b) /\ LexLess(a, b)

Zero == <<"0">>

\* 1<<63, the cutoff of strconv.ParseInt for bitSize 64.
Cutoff ==
    <<"9","2","2","3","3","7","2","0","3","6","8","5","4","7","7","5","8","0","8">>

MaxInt64 ==
    <<"9","2","2","3","3","7","2","0","3","6","8","5","4","7","7","5","8","0","7">>

MinInt64 == <<"-">> \o Cutoff

\* strconv.ParseInt(s, 10, 64): the value and the error ("nil", "syntax", "range").
ParseInt(s) ==
    IF s = <<>> THEN [val |-> Zero, err |-> "syntax"]
    ELSE LET neg == Head(s) = "-"
             ds  == IF Head(s) \in {"+", "-"} THEN Tail(s) ELSE s
         IN  IF ds = <<>> \/ \E k \in 1..Len(ds) : ds[k] \notin Digits
             THEN [val |-> Zero, err |-> "syntax"]
             ELSE LET m == StripZeros(ds)
                  IN  IF ~neg /\ ~NumLess(m, Cutoff)
                      THEN [val |-> MaxInt64, err |-> "range"]
                      ELSE IF neg /\ NumLess(Cutoff, m)
                      THEN [val |-> MinInt64, err |-> "range"]
                      ELSE [val |-> IF neg /\ m # Zero THEN <<"-">> \o m ELSE m,
                            err |-> "nil"]

\* ---- cards.Card and its JSON decoding

ZeroCard == [ID |-> Zero, Title |-> ""]

JNum(n) == [t |-> "num", n |-> n, s |-> ""]
JStr(x) == [t |-> "str", n |-> Zero, s |-> x]

\* Request bodies: text that is no JSON, and JSON objects.
BadJSON == [syntax |-> FALSE, obj |-> <<>>]
JObj(o) == [syntax |-> TRUE, obj |-> o]

Bodies ==
    { BadJSON,
      JObj(<<>>),
      JObj("title" :> JStr("a")),
      JObj("title" :> JStr("b")),
      JObj("title" :> JStr("")),
      JObj("title" :> JNum(<<"5">>)),
      JObj(("id" :> JNum(<<"2">>)) @@ ("title" :> JStr("a"))) }

\* json.NewDecoder(r.Body).Decode(&card) on a zero card: fields absent from
\* the body keep their zero value; a value of the wrong JSON type is an error.
Decode(body) ==
    IF ~body.syntax THEN [err |-> TRUE, card |-> ZeroCard]
    ELSE LET o == body.obj
             has(f) == f \in DOMAIN o
             badType == \/ has("id") /\ o["id"].t # "num"
                        \/ has("title") /\ o["title"].t # "str"
         IN  [err  |-> badType,
              card |-> [ID    |-> IF has("id") /\ o["id"].t = "num"
                                  THEN o["id"].n ELSE Zero,
                        Title |-> IF has("title") /\ o["title"].t = "str"
                                  THEN o["title"].s ELSE ""]]

\* valid.ValidateStruct(card): the card's struct tags hold.
ValidateStruct(card) == card.Title # ""

\* ---- database.MemoryDB

NewMemoryDB == [cards |-> <<>>, lastID |-> 0]

HasCard(d, id) == id \in DOMAIN d.cards

DBCreateCard(d, card) ==
    LET id == Itoa(d.lastID + 1)
        c  == [card EXCEPT !.ID = id]
    IN  [d |-> [cards |-> (id :> c) @@ d.cards, lastID |-> d.lastID + 1], card |-> c]

DBAllCards(d) == {d.cards[id] : id \in DOMAIN d.cards}

DBGetCard(d, id) ==
    IF HasCard(d, id)
    THEN [card |-> d.cards[id], err |-> "nil"]
    ELSE [card |-> ZeroCard, err |-> "ErrCardNotFound"]

DBRemoveCard(d, id) ==
    IF HasCard(d, id)
    THEN [d   |-> [d EXCEPT !.cards = [i \in DOMAIN d.cards \ {id} |-> d.cards[i]]],
          err |-> "nil"]
    ELSE [d |-> d, err |-> "ErrCardNotFound"]

DBUpdateCard(d, card) ==
    IF HasCard(d, card.ID)
    THEN [d    |-> [d EXCEPT !.cards = [i \in DOMAIN d.cards |->
                                          IF i = card.ID THEN card ELSE d.cards[i]]],
          card |-> card, err |-> "nil"]
    ELSE [d |-> d, card |-> ZeroCard, err |-> "ErrCardNotFound"]

\* ---- net/http status codes used by the handlers

StatusOK == 200
StatusCreated == 201
StatusNoContent == 204
StatusUnauthorized == 401
StatusBadRequest == 400
StatusNotFound == 404
StatusUnprocessableEntity == 422
StatusInternalServerError == 500

\* ---- the http.ResponseWriter of one request

NewWriter == [wroteHeader |-> FALSE, status |-> 0, renders |-> <<>>]

ErrorContent == [kind |-> "error", card |-> ZeroCard, list |-> {}]
CardContent(c) == [kind |-> "card", card |-> c, list |-> {}]
ListContent(cs) == [kind |-> "list", card |-> ZeroCard, list |-> cs]
EmptyContent == [kind |-> "string", card |-> ZeroCard, list |-> {}]

\* RenderJSON: w.WriteHeader(statusCode), then the content is encoded into w.
\* net/http keeps the status of the first WriteHeader of a response.
RenderJSON(w, content, statusCode) ==
    [wroteHeader |-> TRUE,
     status      |-> IF w.wroteHeader THEN w.status ELSE statusCode,
     renders     |-> Append(w.renders, [status |-> statusCode, content |-> content])]

\* What a handler did: the writer, the database after it, and the database
\* operations it called, each with the number of renders that came before it.
Outcome(w, d, ops) == [w |-> w, d |-> d, ops |-> ops]

CallOf(op, id, before) == [op |-> op, id |-> id, rendersBefore |-> Len(before.renders)]

\* createCard that stores the card before looking at the validation result.
createCardStoreFirst(body, d) ==
    LET dec == Decode(body)
    IN  IF dec.err
        THEN Outcome(RenderJSON(NewWriter, ErrorContent, StatusUnprocessableEntity), d, <<>>)
        ELSE LET c == DBCreateCard(d, dec.card)
             IN  IF ValidateStruct(dec.card)
                 THEN Outcome(RenderJSON(NewWriter, CardContent(c.card), StatusCreated),
                              c.d, <<CallOf("CreateCard", c.card.ID, NewWriter)>>)
                 ELSE Outcome(RenderJSON(NewWriter, ErrorContent, StatusBadRequest),
                              c.d, <<CallOf("CreateCard", c.card.ID, NewWriter)>>)

\* createCard that answers a decode error like a validation error.
createCardDecode400(body, d) ==
    LET dec == Decode(body)
    IN  IF dec.err
        THEN Outcome(RenderJSON(NewWriter, ErrorContent, StatusBadRequest), d, <<>>)
        ELSE IF ValidateStruct(dec.card)
        THEN LET c == DBCreateCard(d, dec.card)
             IN  Outcome(RenderJSON(NewWriter, CardContent(c.card), StatusCreated),
                         c.d, <<CallOf("CreateCard", c.card.ID, NewWriter)>>)
        ELSE Outcome(RenderJSON(NewWriter, ErrorContent, StatusBadRequest), d, <<>>)

createCard(body, d) ==
    LET dec == Decode(body)
    IN  IF dec.err
        THEN Outcome(RenderJSON(NewWriter, ErrorContent, StatusUnprocessableEntity), d, <<>>)
        ELSE IF ValidateStruct(dec.card)
        THEN LET c == DBCreateCard(d, dec.card)
             IN  Outcome(RenderJSON(NewWriter, CardContent(c.card), StatusCreated),
                         c.d, <<CallOf("CreateCard", c.card.ID, NewWriter)>>)
        ELSE Outcome(RenderJSON(NewWriter, ErrorContent, StatusBadRequest), d, <<>>)

allCards(d) ==
    Outcome(RenderJSON(NewWriter, ListContent(DBAllCards(d)), StatusOK), d,
            <<CallOf("AllCards", Zero, NewWriter)>>)

\* A switch without the ErrCardNotFound case: a missing card falls to default.
RenderResultNoNotFoundCase(w, err, content, okStatus) ==
    IF err = "nil" THEN RenderJSON(w, content, okStatus)
    ELSE RenderJSON(w, ErrorContent, StatusInternalServerError)

\* The switch on the error of a database call, shared by four handlers:
\* ErrCardNotFound -> 404, nil -> the success status, anything else -> 500.
RenderResult(w, err, content, okStatus) ==
    IF err = "ErrCardNotFound" THEN RenderJSON(w, ErrorContent, StatusNotFound)
    ELSE IF err = "nil" THEN RenderJSON(w, content, okStatus)
    ELSE RenderJSON(w, ErrorContent, StatusInternalServerError)

getCard(idStr, d) ==
    LET p == ParseInt(idStr)
    IN  IF p.err # "nil"
        THEN Outcome(RenderJSON(NewWriter, ErrorContent, StatusInternalServerError), d, <<>>)
        ELSE LET g == DBGetCard(d, p.val)
             IN  Outcome(RenderResult(NewWriter, g.err, CardContent(g.card), StatusOK),
                         d, <<CallOf("GetCard", p.val, NewWriter)>>)

\* deleteCart that answers 204 without removing the card.
deleteCartNoRemove(idStr, d) ==
    LET p  == ParseInt(idStr)
        w1 == IF p.err # "nil"
              THEN RenderJSON(NewWriter, ErrorContent, StatusInternalServerError)
              ELSE NewWriter
        g  == DBGetCard(d, p.val)
    IN  Outcome(RenderResult(w1, g.err, EmptyContent, StatusNoContent),
                d, <<CallOf("GetCard", p.val, w1)>>)

\* The parse-error branch has no return: the handler goes on to RemoveCard
\* with the id ParseInt gave back beside the error.
deleteCart(idStr, d) ==
    LET p  == ParseInt(idStr)
        w1 == IF p.err # "nil"
              THEN RenderJSON(NewWriter, ErrorContent, StatusInternalServerError)
              ELSE NewWriter
        r  == DBRemoveCard(d, p.val)
    IN  Outcome(RenderResult(w1, r.err, EmptyContent, StatusNoContent),
                r.d, <<CallOf("RemoveCard", p.val, w1)>>)

\* updateCard that keeps the id of the body: `card.ID = id` is missing.
updateCardBodyID(idStr, body, d) ==
    LET p == ParseInt(idStr)
    IN  IF p.err # "nil"
        THEN Outcome(RenderJSON(NewWriter, ErrorContent, StatusInternalServerError), d, <<>>)
        ELSE LET dec == Decode(body)
             IN  IF dec.err
                 THEN Outcome(RenderJSON(NewWriter, ErrorContent, StatusUnprocessableEntity),
                              d, <<>>)
                 ELSE LET result == ValidateStruct(dec.card)
                          card   == dec.card
                      IN  IF result
                          THEN LET u == DBUpdateCard(d, card)
                               IN  Outcome(RenderResult(NewWriter, u.err,
                                                        CardContent(u.card), StatusOK),
                                           u.d, <<CallOf("UpdateCard", card.ID, NewWriter)>>)
                          ELSE Outcome(RenderJSON(NewWriter, ErrorContent, StatusBadRequest),
                                       d, <<>>)

\* updateCard that looks the card up before it looks at the validation
\* result: a missing card is answered 404 even when the body is invalid.
updateCardLookupFirst(idStr, body, d) ==
    LET p == ParseInt(idStr)
    IN  IF p.err # "nil"
        THEN Outcome(RenderJSON(NewWriter, ErrorContent, StatusInternalServerError), d, <<>>)
        ELSE LET dec == Decode(body)
             IN  IF dec.err
                 THEN Outcome(RenderJSON(NewWriter, ErrorContent, StatusUnprocessableEntity),
                              d, <<>>)
                 ELSE LET result == ValidateStruct(dec.card)
                          card   == [dec.card EXCEPT !.ID = p.val]
                          g      == DBGetCard(d, p.val)
                      IN  IF g.err # "nil"
                          THEN Outcome(RenderJSON(NewWriter, ErrorContent, StatusNotFound),
                                       d, <<CallOf("GetCard", p.val, NewWriter)>>)
                          ELSE IF result
                          THEN LET u == DBUpdateCard(d, card)
                               IN  Outcome(RenderResult(NewWriter, u.err,
                                                        CardContent(u.card), StatusOK),
                                           u.d, <<CallOf("UpdateCard", card.ID, NewWriter)>>)
                          ELSE Outcome(RenderJSON(NewWriter, ErrorContent, StatusBadRequest),
                                       d, <<>>)

updateCard(idStr, body, d) ==
    LET p == ParseInt(idStr)
    IN  IF p.err # "nil"
        THEN Outcome(RenderJSON(NewWriter, ErrorContent, StatusInternalServerError), d, <<>>)
        ELSE LET dec == Decode(body)
             IN  IF dec.err
                 THEN Outcome(RenderJSON(NewWriter, ErrorContent, StatusUnprocessableEntity),
                              d, <<>>)
                 ELSE LET result == ValidateStruct(dec.card)
                          card   == [dec.card EXCEPT !.ID = p.val]
                      IN  IF result
                          THEN LET u == DBUpdateCard(d, card)
                               IN  Outcome(RenderResult(NewWriter, u.err,
                                                        CardContent(u.card), StatusOK),
                                           u.d, <<CallOf("UpdateCard", card.ID, NewWriter)>>)
                          ELSE Outcome(RenderJSON(NewWriter, ErrorContent, StatusBadRequest),
                                       d, <<>>)

partialUpdateCard(idStr, body, d) ==
    LET p == ParseInt(idStr)
    IN  IF p.err # "nil"
        THEN Outcome(RenderJSON(NewWriter, ErrorContent, StatusInternalServerError), d, <<>>)
        ELSE LET dec == Decode(body)
             IN  IF dec.err
                 THEN Outcome(RenderJSON(NewWriter, ErrorContent, StatusUnprocessableEntity),
                              d, <<>>)
                 ELSE LET card == [dec.card EXCEPT !.ID = p.val]
                          u    == DBUpdateCard(d, card)
                      IN  Outcome(RenderResult(NewWriter, u.err, CardContent(u.card), StatusOK),
                                  u.d, <<CallOf("UpdateCard", card.ID, NewWriter)>>)

\* ---- the route table of main

CardsPath == <<"/", "c", "a", "r", "d", "s">>
CardsNoSlash == <<"c", "a", "r", "d", "s">>
CardsIDPrefix == CardsPath \o <<"/">>

\* r.HandleFunc(template, handler).Methods(method), in registration order.
\* A template is a literal, or a literal followed by {id:[0-9]+}.
RouteTable ==
    << [literal |-> CardsNoSlash,  hasID |-> FALSE, method |-> "POST",   handler |-> "createCard"],
       [literal |-> CardsPath,     hasID |-> FALSE, method |-> "GET",    handler |-> "allCards"],
       [literal |-> CardsIDPrefix, hasID |-> TRUE,  method |-> "GET",    handler |-> "getCard"],
       [literal |-> CardsIDPrefix, hasID |-> TRUE,  method |-> "DELETE", handler |-> "deleteCart"],
       [literal |-> CardsIDPrefix, hasID |-> TRUE,  method |-> "PUT",    handler |-> "updateCard"],
       [literal |-> CardsIDPrefix, hasID |-> TRUE,  method |-> "PATCH",  handler |-> "partialUpdateCard"] >>

IsDigits(s) == s # <<>> /\ \A k \in 1..Len(s) : s[k] \in Digits

HasPrefix(path, lit) == Len(path) >= Len(lit) /\ SubSeq(path, 1, Len(lit)) = lit

AfterPrefix(path, lit) == SubSeq(path, Len(lit) + 1, Len(path))

\* mux matches the whole request path against the anchored template.
RouteMatches(route, method, path) ==
    /\ route.method = method
    /\ IF route.hasID
       THEN HasPrefix(path, route.literal) /\ IsDigits(AfterPrefix(path, route.literal))
       ELSE path = route.literal

NoRoute == [handler |-> "none", id |-> <<>>]

\* The first matching route and the {id} variable it captures.
Route(method, path) ==
    LET hits == {i \in 1..Len(RouteTable) : RouteMatches(RouteTable[i], method, path)}
    IN  IF hits = {} THEN NoRoute
        ELSE LET i == CHOOSE j \in hits : \A k \in hits : j <= k
                 r == RouteTable[i]
             IN  [handler |-> r.handler,
                  id      |-> IF r.hasID THEN AfterPrefix(path, r.literal) ELSE <<>>]

\* ---- requests

Methods == {"GET", "POST", "PUT", "PATCH", "DELETE"}

Nines == [k \in 1..20 |-> "9"]

\* Values of the {id} path variable: ids of cards, ids of no card, text that
\* is no decimal number, and numbers on both sides of the int64 range.
IdStrings ==
    {Itoa(k) : k \in 0..(MaxCards + 1)}
        \cup { <<>>, <<"0", "1">>, <<"+", "1">>, <<"-", "1">>, <<"a">>, <<"1", "a">>,
               MaxInt64, Cutoff, Nines }

\* Request paths: a request path starts with "/".
Paths ==
    {CardsPath, CardsIDPrefix, <<"/">>, <<"/", "c", "a", "r", "d">>}
        \cup {CardsIDPrefix \o s : s \in IdStrings}

Handlers ==
    {"createCard", "allCards", "getCard", "deleteCart", "updateCard", "partialUpdateCard"}

\* The handler's run on the request, by name.
Run(handler, idStr, body, d) ==
    CASE handler = "createCard"        -> createCard(body, d)
      [] handler = "allCards"          -> allCards(d)
      [] handler = "getCard"           -> getCard(idStr, d)
      [] handler = "deleteCart"        -> deleteCart(idStr, d)
      [] handler = "updateCard"        -> updateCard(idStr, body, d)
      [] handler = "partialUpdateCard" -> partialUpdateCard(idStr, body, d)
      [] OTHER                         -> Outcome(NewWriter, d, <<>>)

NoRequest ==
    [via |-> "none", method |-> "", path |-> <<>>, handler |-> "none", id |-> <<>>,
     body |-> BadJSON]

NoResponse == [handler |-> "none", id |-> <<>>, body |-> BadJSON, w |-> NewWriter, ops |-> <<>>]

CardsInit ==
    /\ db = NewMemoryDB
    /\ req = NoRequest
    /\ last = NoResponse
    /\ removed = {}
    /\ kept = {}

Idle == req = NoRequest /\ last = NoResponse

\* A request arrives through the router, which picks its handler and {id}.
ServeHTTP ==
    /\ Idle
    /\ \E method \in Methods, path \in Paths, body \in Bodies :
        LET rt == Route(method, path)
        IN  req' = [via |-> "router", method |-> method, path |-> path,
                    handler |-> rt.handler, id |-> rt.id, body |-> body]
    /\ UNCHANGED <<db, last, removed, kept>>
    /\ UNCHANGED <<fizzVars, orderVars, pokeVars>>

\* A handler is called on a request directly, whatever its {id} variable is.
CallHandler ==
    /\ Idle
    /\ \E handler \in Handlers, s \in IdStrings, body \in Bodies :
        /\ handler \in {"createCard", "allCards"} => s = <<>>
        /\ handler \in {"allCards", "getCard", "deleteCart"} => body = BadJSON
        /\ req' = [via |-> "direct", method |-> "", path |-> <<>>,
                   handler |-> handler, id |-> s, body |-> body]
    /\ UNCHANGED <<db, last, removed, kept>>
    /\ UNCHANGED <<fizzVars, orderVars, pokeVars>>

\* The handler named runs on the pending request, to its end.
Handle(handler) ==
    /\ req # NoRequest
    /\ LET out == Run(handler, req.id, req.body, db)
       IN  /\ db' = out.d
           /\ last' = [handler |-> handler, id |-> req.id, body |-> req.body,
                       w |-> out.w, ops |-> out.ops]
           /\ removed' = IF handler = "createCard" THEN {}
                         ELSE IF handler = "deleteCart" /\ out.w.status = StatusNoContent
                         THEN removed \cup {ParseInt(req.id).val}
                         ELSE removed
           /\ kept' = IF handler = "createCard" THEN {}
                      ELSE IF handler = "deleteCart" /\ out.w.status = StatusNoContent
                      THEN DOMAIN db.cards \ {ParseInt(req.id).val}
                      ELSE kept
    /\ req' = NoRequest
    /\ UNCHANGED <<fizzVars, orderVars, pokeVars>>

HandleCreateCard ==
    /\ req.handler = "createCard"
    /\ db.lastID < MaxCards
    /\ Handle("createCard")

HandleAllCards == req.handler = "allCards" /\ Handle("allCards")

HandleGetCard == req.handler = "getCard" /\ Handle("getCard")

HandleDeleteCart == req.handler = "deleteCart" /\ Handle("deleteCart")

HandleUpdateCard == req.handler = "updateCard" /\ Handle("updateCard")

HandlePartialUpdateCard ==
    req.handler = "partialUpdateCard" /\ Handle("partialUpdateCard")

\* No route matched: the router answers by itself and no handler runs.
HandleNoRoute ==
    /\ req # NoRequest
    /\ req.handler = "none"
    /\ req' = NoRequest
    /\ UNCHANGED <<db, last, removed, kept>>
    /\ UNCHANGED <<fizzVars, orderVars, pokeVars>>

\* The response is complete; the server waits for the next request.
Finish ==
    /\ req = NoRequest
    /\ last # NoResponse
    /\ last' = NoResponse
    /\ UNCHANGED <<db, req, removed, kept>>
    /\ UNCHANGED <<fizzVars, orderVars, pokeVars>>

CardsNext ==
    \/ ServeHTTP
    \/ CallHandler
    \/ HandleCreateCard
    \/ HandleAllCards
    \/ HandleGetCard
    \/ HandleDeleteCart
    \/ HandleUpdateCard
    \/ HandlePartialUpdateCard
    \/ HandleNoRoute
    \/ Finish

(***************************************************************************)
(* Part III - the Order / promo example                                    *)
(*                                                                         *)
(* Amounts are held in thousandths; prices are multiples of 0.50, so the   *)
(* totals and the 5%, 7% and 10% discounts are whole numbers of            *)
(* thousandths and the divisions below are exact.                          *)
(***************************************************************************)

\* Bound on the length of the generated carts.
MaxCart == 2

\* The customers, cart and orders of main.
Joe == [name |-> "John Doe", fidelity |-> 0]
Ann == [name |-> "Ann Smith", fidelity |-> 1100]

LineItem(product, quantity, price) ==
    [product |-> product, quantity |-> quantity, price |-> price]

MainCart ==
    << LineItem("banana", 4, 500), LineItem("apple", 10, 1500), LineItem("banana", 5, 5000) >>

BananaCart == << LineItem("banana", 30, 500), LineItem("apple", 10, 1500) >>

\* string(65 + i) for i = 0..9
LargeOrderProducts == <<"A", "B", "C", "D", "E", "F", "G", "H", "I", "J">>

LargeOrder == [i \in 1..10 |-> LineItem(LargeOrderProducts[i], 1, 1000)]

\* Generated inputs: customers on both sides of the fidelity threshold and
\* short carts with quantities on both sides of the bulk threshold.
Customers ==
    {Joe, Ann} \cup {[name |-> "Customer", fidelity |-> f] : f \in {999, 1000, 1001}}

Items ==
    {LineItem(p, q, c) : p \in {"banana", "apple"}, q \in {0, 4, 20}, c \in {500, 1500}}

Carts == {MainCart, BananaCart, LargeOrder} \cup SeqsUpTo(Items, MaxCart)

Promos == {"nil", "FidelityPromo", "BulkItemPromo", "LargeOrderPromo"}

Orders == [ctm : Customers, cart : Carts, promo : Promos]

\* An item total that forgets the quantity.
LineItemTotalPriceOnly(item) == item.price

\* LineItem.Total
LineItemTotal(item) == item.quantity * item.price

\* The loop of Order.Total from item k on, with the running total.
RECURSIVE TotalLoop(_, _, _)
TotalLoop(cart, k, total) ==
    IF k > Len(cart) THEN total
    ELSE TotalLoop(cart, k + 1, total + LineItemTotal(cart[k]))

\* Order.Total
OrderTotal(o) == TotalLoop(o.cart, 1, 0)

\* FidelityPromo with > in place of >=.
FidelityPromoStrict(o) ==
    IF o.ctm.fidelity > 1000 THEN (OrderTotal(o) * 5) \div 100 ELSE 0

FidelityPromo(o) ==
    IF o.ctm.fidelity >= 1000 THEN (OrderTotal(o) * 5) \div 100 ELSE 0

RECURSIVE BulkLoop(_, _, _)
BulkLoop(cart, k, discount) ==
    IF k > Len(cart) THEN discount
    ELSE BulkLoop(cart, k + 1,
                  IF cart[k].quantity >= 20
                  THEN discount + (LineItemTotal(cart[k]) * 10) \div 100
                  ELSE discount)

BulkItemPromo(o) == BulkLoop(o.cart, 1, 0)

LargeOrderPromo(o) ==
    LET set == {o.cart[k].product : k \in 1..Len(o.cart)}
    IN  IF Cardinality(set) >= 10 THEN (OrderTotal(o) * 7) \div 100 ELSE 0

\* order.promo(order), for a promo that is not nil.
ApplyPromo(o) ==
    CASE o.promo = "FidelityPromo"   -> FidelityPromo(o)
      [] o.promo = "BulkItemPromo"   -> BulkItemPromo(o)
      [] o.promo = "LargeOrderPromo" -> LargeOrderPromo(o)

\* The local `discount` of Order.Due.
DueDiscount(o) == IF o.promo # "nil" THEN ApplyPromo(o) ELSE 0

\* Order.Due
OrderDue(o) == OrderTotal(o) - DueDiscount(o)

OrderInit ==
    /\ order \in Orders
    /\ opc = "new"
    /\ ototal = 0
    /\ odiscount = 0
    /\ odue = 0

\* No order is being printed.
OrderIdle ==
    /\ order = [ctm |-> Joe, cart |-> <<>>, promo |-> "nil"]
    /\ opc = "new"
    /\ ototal = 0
    /\ odiscount = 0
    /\ odue = 0

\* fmt.Println(order) calls Order.String, which calls order.Total() ...
CallTotal ==
    /\ opc = "new"
    /\ ototal' = OrderTotal(order)
    /\ opc' = "total"
    /\ UNCHANGED <<order, odiscount, odue>>
    /\ UNCHANGED <<fizzVars, cardsVars, pokeVars>>

\* ... and then order.Due(), which calls the promo when there is one.
CallDue ==
    /\ opc = "total"
    /\ odiscount' = DueDiscount(order)
    /\ odue' = OrderDue(order)
    /\ opc' = "due"
    /\ UNCHANGED <<order, ototal>>
    /\ UNCHANGED <<fizzVars, cardsVars, pokeVars>>

\* "<Order total: %.2f due: %.2f>" is printed.
PrintOrder ==
    /\ opc = "due"
    /\ opc' = "printed"
    /\ UNCHANGED <<order, ototal, odiscount, odue>>
    /\ UNCHANGED <<fizzVars, cardsVars, pokeVars>>

OrderNext ==
    \/ CallTotal
    \/ CallDue
    \/ PrintOrder

(***************************************************************************)
(* Part IV - day06 Pokedex                                                 *)
(***************************************************************************)

\* Bounds on the lists of the decoded Pokemon.
MaxAbilities == 2
MaxMoves == 2

\* Values of the -index flag ("1" is its default).
Indexes == {<<"1">>, <<"2", "5">>, <<"x">>}

NoResponseYet == [err |-> FALSE, kind |-> "none", abilities |-> 0, moves |-> 0]

\* What http.Get can give back: an error (no response), a response whose
\* body is no JSON for a Pokemon, or a response carrying a Pokemon.
GetOutcomes ==
    { [err |-> TRUE,  kind |-> "none", abilities |-> 0, moves |-> 0],
      [err |-> FALSE, kind |-> "text", abilities |-> 0, moves |-> 0] }
        \cup { [err |-> FALSE, kind |-> "pokemon", abilities |-> a, moves |-> m] :
                   a \in 0..MaxAbilities, m \in 0..MaxMoves }

\* The error of json.NewDecoder(resp.Body).Decode(&pk).
DecodeErr(r) == r.kind # "pokemon"

ZeroPokemon == [abilities |-> 0, moves |-> 0]

DecodePokemon(r) ==
    IF DecodeErr(r) THEN ZeroPokemon ELSE [abilities |-> r.abilities, moves |-> r.moves]

\* The effect of running the deferred calls on the body.
ClosedAfter(calls, closed) ==
    closed \/ \E k \in 1..Len(calls) : calls[k] = "resp.Body.Close"

PokeInit ==
    /\ ppc = "get"
    /\ index \in Indexes
    /\ resp = NoResponseYet
    /\ bodyClosed = FALSE
    /\ deferred = <<>>
    /\ decodes = 0
    /\ pk = ZeroPokemon
    /\ printed = 0
    /\ exitCode = -1

\* The program is not run.
PokeIdle ==
    /\ ppc = "get"
    /\ index = <<"1">>
    /\ resp = NoResponseYet
    /\ bodyClosed = FALSE
    /\ deferred = <<>>
    /\ decodes = 0
    /\ pk = ZeroPokemon
    /\ printed = 0
    /\ exitCode = -1

\* resp, err := http.Get("http://pokeapi.co/api/v2/pokemon/" + *index)
HttpGet ==
    /\ ppc = "get"
    /\ resp' \in GetOutcomes
    /\ ppc' = "checkGet"
    /\ UNCHANGED <<index, bodyClosed, deferred, decodes, pk, printed, exitCode>>
    /\ UNCHANGED <<fizzVars, cardsVars, orderVars>>

\* if err != nil { log.Fatal(err) }: os.Exit(1), deferred calls are not run.
FatalGet ==
    /\ ppc = "checkGet"
    /\ resp.err
    /\ exitCode' = 1
    /\ ppc' = "exited"
    /\ UNCHANGED <<index, resp, bodyClosed, deferred, decodes, pk, printed>>
    /\ UNCHANGED <<fizzVars, cardsVars, orderVars>>

\* err = json.NewDecoder(resp.Body).Decode(&pk)
DecodeBody ==
    /\ ppc = "checkGet"
    /\ ~resp.err
    /\ decodes' = decodes + 1
    /\ pk' = DecodePokemon(resp)
    /\ ppc' = "defer"
    /\ UNCHANGED <<index, resp, bodyClosed, deferred, printed, exitCode>>
    /\ UNCHANGED <<fizzVars, cardsVars, orderVars>>

\* defer resp.Body.Close()
DeferClose ==
    /\ ppc = "defer"
    /\ deferred' = Append(deferred, "resp.Body.Close")
    /\ ppc' = "checkDecode"
    /\ UNCHANGED <<index, resp, bodyClosed, decodes, pk, printed, exitCode>>
    /\ UNCHANGED <<fizzVars, cardsVars, orderVars>>

\* if err != nil { log.Fatal(err) }: os.Exit(1), deferred calls are not run.
FatalDecode ==
    /\ ppc = "checkDecode"
    /\ DecodeErr(resp)
    /\ exitCode' = 1
    /\ ppc' = "exited"
    /\ UNCHANGED <<index, resp, bodyClosed, deferred, decodes, pk, printed>>
    /\ UNCHANGED <<fizzVars, cardsVars, orderVars>>

\* fmt.Printf("#%d %s \n", pk.Order, pk.Name); fmt.Println("Abilities:")
PrintName ==
    /\ ppc = "checkDecode"
    /\ ~DecodeErr(resp)
    /\ printed' = printed + 2
    /\ ppc' = "abilities"
    /\ UNCHANGED <<index, resp, bodyClosed, deferred, decodes, pk, exitCode>>
    /\ UNCHANGED <<fizzVars, cardsVars, orderVars>>

\* One iteration of `for _, form := range pk.Abilities`.
PrintAbility ==
    /\ ppc = "abilities"
    /\ printed - 2 < pk.abilities
    /\ printed' = printed + 1
    /\ UNCHANGED <<ppc, index, resp, bodyClosed, deferred, decodes, pk, exitCode>>
    /\ UNCHANGED <<fizzVars, cardsVars, orderVars>>

\* fmt.Println("Moves:")
PrintMovesHeader ==
    /\ ppc = "abilities"
    /\ printed - 2 >= pk.abilities
    /\ printed' = printed + 1
    /\ ppc' = "moves"
    /\ UNCHANGED <<index, resp, bodyClosed, deferred, decodes, pk, exitCode>>
    /\ UNCHANGED <<fizzVars, cardsVars, orderVars>>

\* One iteration of `for _, form := range pk.Moves`.
PrintMove ==
    /\ ppc = "moves"
    /\ printed - 3 - pk.abilities < pk.moves
    /\ printed' = printed + 1
    /\ UNCHANGED <<ppc, index, resp, bodyClosed, deferred, decodes, pk, exitCode>>
    /\ UNCHANGED <<fizzVars, cardsVars, orderVars>>

\* main returns: the deferred calls run, then the process exits with 0.
MainReturn ==
    /\ ppc = "moves"
    /\ printed - 3 - pk.abilities >= pk.moves
    /\ bodyClosed' = ClosedAfter(deferred, bodyClosed)
    /\ deferred' = <<>>
    /\ exitCode' = 0
    /\ ppc' = "exited"
    /\ UNCHANGED <<index, resp, decodes, pk, printed>>
    /\ UNCHANGED <<fizzVars, cardsVars, orderVars>>

PokeNext ==
    \/ HttpGet
    \/ FatalGet
    \/ DecodeBody
    \/ DeferClose
    \/ FatalDecode
    \/ PrintName
    \/ PrintAbility
    \/ PrintMovesHeader
    \/ PrintMove
    \/ MainReturn

(***************************************************************************)
(* Specifications                                                          *)
(***************************************************************************)

\* The test of day02 runs; the cards service serves nothing.
FizzSpecInit == FizzInit /\ CardsInit /\ OrderIdle /\ PokeIdle

FizzSpec == FizzSpecInit /\ [][FizzNext]_vars

\* Fair scheduling of the two goroutines: a step that stays possible is taken.
FizzFairSpec == FizzSpec /\ WF_vars(FizzNext)

\* The test of day02 not started.
FizzIdle ==
    /\ table = <<>>
    /\ idx = 1
    /\ tpc = "go"
    /\ actual = ""
    /\ errors = 0
    /\ sent = <<>>
    /\ received = <<>>
    /\ wpc = "none"
    /\ number = 0

\* The cards service serves requests; the test of day02 is not run.
CardsSpecInit == CardsInit /\ FizzIdle /\ OrderIdle /\ PokeIdle

CardsSpec == CardsSpecInit /\ [][CardsNext]_vars

\* Orders are printed; nothing else runs.
OrderSpecInit == OrderInit /\ FizzIdle /\ CardsInit /\ PokeIdle

OrderSpec == OrderSpecInit /\ [][OrderNext]_vars

\* The Pokedex program runs; nothing else does.
PokeSpecInit == PokeInit /\ FizzIdle /\ CardsInit /\ OrderIdle

PokeSpec == PokeSpecInit /\ [][PokeNext]_vars

(***************************************************************************)
(* Claims on day02                                                         *)
(***************************************************************************)

\* C1: every string received on message answers the integer sent on count
\* just before it: "FizzBuzz" when that integer is divisible by 15, "Fizz"
\* when it is divisible by 3 and not by 5, "Buzz" when it is divisible by 5
\* and not by 3.
C1_FizzBuzzAnswers ==
    \A k \in 1..Len(received) :
        LET n == sent[k]
            s == received[k]
        IN  /\ (n % 15 = 0 => s = "FizzBuzz")
            /\ (n % 3 = 0 /\ n % 5 # 0 => s = "Fizz")
            /\ (n % 5 = 0 /\ n % 3 # 0 => s = "Buzz")

\* A run in which the three kinds of answers have all been received.
C1_Witness ==
    /\ sent = <<3, 5, 0>>
    /\ received = <<"Fizz", "Buzz", "FizzBuzz">>

\* C2: the worker sends exactly one string per integer it receives, and the
\* k-th string the test receives is the answer to the k-th integer it sent:
\* no reply is missing, duplicated or reordered.
C2_OneReplyPerRequestInOrder ==
    /\ Len(received) <= Len(sent)
    /\ Len(sent) <= Len(received) + 1
    /\ (wpc = "send") <=> (Len(sent) = Len(received) + 1)
    /\ (tpc = "recv") <=> (wpc = "send")
    /\ \A k \in 1..Len(received) : received[k] = FizzBuzzOf(sent[k])
    /\ \A k \in 1..Len(sent) : sent[k] = table[k].input
    /\ actual = (IF received = <<>> THEN "" ELSE received[Len(received)])

\* Three successive requests to one worker, with different answers, answered.
C2_Witness ==
    /\ Len(table) = 3
    /\ Len(received) = 3
    /\ received[1] # received[2]
    /\ received[2] # received[3]
    /\ tpc = "send"

\* C3: under fair scheduling every integer sent on count is eventually
\* answered on message and the test finishes its whole table.
C3_EveryRequestAnsweredAndTestFinishes ==
    /\ \A k \in 1..(MaxTable + 1) : (Len(sent) = k) ~> (Len(received) = k)
    /\ <>(tpc = "done" /\ Len(received) = Len(table))

\* The test returned after a table of three rows was answered in full.
C3_Witness ==
    /\ tpc = "done"
    /\ Len(table) = 3
    /\ Len(received) = 3

(***************************************************************************)
(* Claims on day13                                                         *)
(***************************************************************************)

Handled == last.handler \in Handlers

Renders == last.w.renders

\* The database operations of the last handler run, by name.
OpsNamed(op) == {k \in 1..Len(last.ops) : last.ops[k].op = op}

\* The pending request carries an id that parses.
ParsesID == ParseInt(req.id).err = "nil"

PathID == ParseInt(req.id).val

StandardStatuses == {200, 201, 204, 400, 404, 422, 500}

ClaimedHandler(method, path) ==
    IF path = CardsPath
    THEN (IF method = "GET" THEN "allCards"
          ELSE IF method = "POST" THEN "createCard"
          ELSE "none")
    ELSE IF HasPrefix(path, CardsIDPrefix) /\ IsDigits(AfterPrefix(path, CardsIDPrefix))
    THEN (IF method = "GET" THEN "getCard"
          ELSE IF method = "PUT" THEN "updateCard"
          ELSE IF method = "PATCH" THEN "partialUpdateCard"
          ELSE IF method = "DELETE" THEN "deleteCart"
          ELSE "none")
    ELSE "none"

\* C5: the route table dispatches GET /cards, POST /cards, GET, PUT, PATCH
\* and DELETE /cards/{id} (id a non-empty digit string) each to its handler
\* (allCards, createCard, getCard, updateCard, partialUpdateCard, the delete
\* handler) and dispatches no other (method, path) pair to any handler.
C5_RouteTable ==
    req.via = "router" => req.handler = ClaimedHandler(req.method, req.path)

\* C6: a handler that has rendered an error response performs no database
\* operation afterwards and renders no second response: each request gets
\* exactly one status code written.
C6_ImmediateReturn ==
    Handled =>
        /\ Len(Renders) = 1
        /\ \A k \in 1..Len(last.ops) : last.ops[k].rendersBefore = 0

C8_CreateCardFrame ==
    [][ (req.handler = "createCard" /\ last'.handler = "createCard") =>
            LET n == Cardinality({k \in 1..Len(last'.ops) : last'.ops[k].op = "CreateCard"})
            IN  /\ n <= 1
                /\ (n = 1) <=> (last'.w.status = 201)
                /\ (last'.w.status \in {422, 400}) => db' = db ]_vars

\* createCard answered 201 and the card it stored is the second in the database.
C8_Witness ==
    /\ last.handler = "createCard"
    /\ last.w.status = 201
    /\ Cardinality(OpsNamed("CreateCard")) = 1
    /\ Cardinality(DOMAIN db.cards) = 2

\* C9: when the path id parses as an integer but names no card, getCard, the
\* delete handler, partialUpdateCard (decodable body) and updateCard
\* (decodable, valid body) respond 404 and leave the database unchanged.
C9_MissingCardIs404 ==
    [][ ( /\ req.handler \in {"getCard", "deleteCart", "updateCard", "partialUpdateCard"}
          /\ last'.handler = req.handler
          /\ ParsesID
          /\ ~HasCard(db, PathID)
          /\ req.handler \in {"updateCard", "partialUpdateCard"} => ~Decode(req.body).err
          /\ req.handler = "updateCard" => ValidateStruct(Decode(req.body).card) )
        => /\ last'.w.status = 404
           /\ Len(last'.w.renders) = 1
           /\ db' = db ]_vars

\* updateCard answered 404 to a valid card for an id that is no card's,
\* while the database holds another card.
C9_Witness ==
    /\ last.handler = "updateCard"
    /\ ParseInt(last.id).err = "nil"
    /\ ~Decode(last.body).err
    /\ ValidateStruct(Decode(last.body).card)
    /\ last.w.status = 404
    /\ ~HasCard(db, ParseInt(last.id).val)
    /\ DOMAIN db.cards # {}

\* C10: after a DELETE of an existing id answered 204, and with no create
\* request since, a GET of that id answers 404 and a second DELETE of it
\* answers 404; every other card present before the delete is still
\* returned by GET with status 200.
C10_DeleteThenGet ==
    [][ /\ ( /\ req.handler \in {"getCard", "deleteCart"}
             /\ last'.handler = req.handler
             /\ ParsesID
             /\ PathID \in removed )
           => last'.w.status = 404
        /\ ( /\ req.handler = "getCard"
             /\ last'.handler = "getCard"
             /\ ParsesID
             /\ PathID \in kept )
           => /\ last'.w.status = 200
              /\ last'.w.renders[1].content.kind = "card"
              /\ last'.w.renders[1].content.card.ID = PathID ]_vars

\* A GET answered 404 for an id removed earlier, another card being kept.
C10_Witness ==
    /\ last.handler = "getCard"
    /\ ParseInt(last.id).err = "nil"
    /\ ParseInt(last.id).val \in removed
    /\ last.w.status = 404
    /\ kept # {}

\* C11: in updateCard and partialUpdateCard the card passed to db.UpdateCard
\* has the id of the request path, whatever id the body holds, so a PUT or
\* PATCH on /cards/{id} modifies no card other than the one the path names.
C11_UpdateUsesPathID ==
    [][ ( /\ req.handler \in {"updateCard", "partialUpdateCard"}
          /\ last'.handler = req.handler )
        => /\ \A k \in 1..Len(last'.ops) :
                  last'.ops[k].op = "UpdateCard" => /\ ParsesID
                                                    /\ last'.ops[k].id = PathID
           /\ DOMAIN db'.cards = DOMAIN db.cards
           /\ \A i \in DOMAIN db.cards :
                  (~ParsesID \/ i # PathID) => db'.cards[i] = db.cards[i] ]_vars

\* A PUT on card 1 whose body names card 2 was answered 200: card 1 holds the
\* new title and card 2 is as it was.
C11_Witness ==
    /\ last.handler = "updateCard"
    /\ last.w.status = 200
    /\ last.id = <<"1">>
    /\ Decode(last.body).card.ID = <<"2">>
    /\ HasCard(db, <<"1">>) /\ db.cards[<<"1">>].Title = "a"
    /\ HasCard(db, <<"2">>) /\ db.cards[<<"2">>].Title = "b"
    /\ OpsNamed("UpdateCard") # {}

\* The pending request is a PUT whose body decodes into an invalid card.
InvalidPut ==
    /\ req.handler = "updateCard"
    /\ last'.handler = "updateCard"
    /\ ~Decode(req.body).err
    /\ ~ValidateStruct(Decode(req.body).card)

\* C12 as stated: updateCard with a body that decodes but fails
\* ValidateStruct responds 400 without calling db.UpdateCard, whether or not
\* the path id exists, and the database is unchanged.
C12_InvalidPutIs400 ==
    [][ InvalidPut => /\ last'.w.status = 400
                      /\ last'.ops = <<>>
                      /\ db' = db ]_vars

\* C12 amended: the same, for a path id that parses as an int64; when the
\* id does not parse the response is 500, also without a database call.
C12_InvalidPutIs400WhenIDParses ==
    [][ InvalidPut => /\ last'.w.status = (IF ParsesID THEN 400 ELSE 500)
                      /\ Len(last'.w.renders) = 1
                      /\ last'.ops = <<>>
                      /\ db' = db ]_vars

\* An invalid PUT was answered 400 for an id that is no card's, while the
\* database holds a card.
C12_Witness ==
    /\ last.handler = "updateCard"
    /\ ~Decode(last.body).err
    /\ ~ValidateStruct(Decode(last.body).card)
    /\ ParseInt(last.id).err = "nil"
    /\ ~HasCard(db, ParseInt(last.id).val)
    /\ DOMAIN db.cards # {}
    /\ last.w.status = 400

\* C13: after any sequence of create, PUT, PATCH and DELETE requests every
\* card held in the database satisfies ValidateStruct.
C13_StoredCardsAreValid ==
    \A i \in DOMAIN db.cards : ValidateStruct(db.cards[i])

(***************************************************************************)
(* Claims on the Order / promo example                                     *)
(***************************************************************************)

\* The sum over the cart's items of quantity times price, taken from the
\* last item backwards.
RECURSIVE SumOfItems(_)
SumOfItems(cart) ==
    IF cart = <<>> THEN 0
    ELSE SumOfItems(SubSeq(cart, 1, Len(cart) - 1))
             + cart[Len(cart)].quantity * cart[Len(cart)].price

\* C14: Order.Total is the sum over the cart of quantity times price, and
\* Order.Due is Order.Total minus the value the order's promo returned for
\* that order; with a nil promo Due equals Total.
C14_TotalAndDue ==
    /\ opc \in {"total", "due", "printed"} => ototal = SumOfItems(order.cart)
    /\ opc \in {"due", "printed"} =>
           /\ odue = SumOfItems(order.cart) - odiscount
           /\ order.promo = "nil" => odiscount = 0 /\ odue = ototal
           /\ order.promo # "nil" => odiscount = ApplyPromo(order)

\* Ann's order of main was printed: total 42.00, due 39.90.
C14_Witness ==
    /\ opc = "printed"
    /\ order = [ctm |-> Ann, cart |-> MainCart, promo |-> "FidelityPromo"]
    /\ ototal = 42000
    /\ odue = 39900

\* C15: FidelityPromo returns 5% of the order total when the customer's
\* fidelity is at least 1000 (1000 included) and 0 when it is below 1000,
\* whatever the cart holds.
C15_FidelityPromo ==
    (order.promo = "FidelityPromo" /\ opc \in {"due", "printed"}) =>
        IF order.ctm.fidelity >= 1000
        THEN odiscount * 100 = 5 * SumOfItems(order.cart)
        ELSE odiscount = 0

\* A customer with exactly 1000 points got a discount that is not zero.
C15_Witness ==
    /\ order.promo = "FidelityPromo"
    /\ opc = "due"
    /\ order.ctm.fidelity = 1000
    /\ odiscount > 0

(***************************************************************************)
(* Claims on day06                                                         *)
(***************************************************************************)

\* C16: on every execution in which the HTTP GET succeeds the response body
\* is closed before the process exits, also when JSON decoding fails; and
\* when the GET fails the program terminates without decoding or printing.
C16_BodyClosedBeforeExit ==
    /\ (ppc = "exited" /\ ~resp.err) => bodyClosed
    /\ resp.err => /\ ppc \in {"checkGet", "exited"}
                   /\ decodes = 0
                   /\ printed = 0

====
